---- MODULE Spec2Model ----
(***************************************************************************)
(* State-machine model of the pinch-and-drop puzzle game:                  *)
(*   src/game/logic.py   GameLogic (objects, slots, key, timer, win)       *)
(*   src/main.py         main loop (per-frame interaction, restart)        *)
(*   src/config/camera.py  HandTracker (hand observation, pinch test)      *)
(* Spec follows the frame loop under the inputs the loop body works with   *)
(* (interaction_point, is_action); SpecCamera follows camera mode, where   *)
(* these inputs come from the HandTracker's reading of the hand's          *)
(* keypoints.                                                              *)
(* Python lists are modelled as functions on 0..n-1, so that indices are   *)
(* the ones the code uses.  Python's None is modelled by None (symbols),   *)
(* NoIndex (list indices / object references) and NoPoint (points).        *)
(***************************************************************************)
EXTENDS Integers, Sequences, FiniteSets, TLC

VARIABLES
    game,       \* the GameLogic object main() holds in `game`
    elapsed,    \* time.time() - game.start_time, in clock units
    detached,   \* history: the latest frame picked an object up out of a slot
    placed,     \* history: the latest frame put an object into a slot
    tracker,    \* the HandTracker object main() holds in `tracker`
    index_tip,  \* main()'s local index_tip
    thumb_tip   \* main()'s local thumb_tip

vars == <<game, elapsed, detached, placed, tracker, index_tip, thumb_tip>>

-----------------------------------------------------------------------------
(* Constants of the program *)

time_limit == 60
slot_snap_radius == 70
NumSlots == 5
ObjectSize == 40
RespawnInset == 20

\* config.py: WIDTH, HEIGHT; the camera is asked for frames of this size.
WIDTH == 1100
HEIGHT == 700

\* camera.py thresholds, in hundredths: 0.18 and 0.38.
norm_pinch_threshold == 18
open_spread_threshold == 38
\* camera.py: is_small_box = diag < 120
small_box_diag == 120

None == "None"
NoIndex == -1
NoPoint == <<>>

base_symbols == <<"RUBY-1", "GEAR-A", "RUBY-2", "GEAR-B", "RUBY-3">>
extra_symbols == <<"GEAR-C", "RUBY-4", "GEAR-D", "RUBY-5", "GEAR-E">>

\* self.slots = [(300 + i * 100, 500) for i in range(5)]
slots == [i \in 0..(NumSlots - 1) |-> <<300 + i * 100, 500>>]

\* self.box_area = (x, y, w, h)
box_area == <<100, 100, 400, 300>>

-----------------------------------------------------------------------------
(* Bounds of the model *)

\* The clock is followed in units of 1/UnitsPerSecond second.
UnitsPerSecond == 4

\* No frame is followed beyond elapsed = MaxElapsed (clock units).
MaxElapsed == 255

\* Clock units a frame takes (the clock is read once per frame, in update()):
\* 3.75 s, so that the 16th frame reads the clock at exactly time_limit.
FrameLength == 15

FrameUnits == {FrameLength}

\* Outcomes of random.shuffle(self.reference_key): positions of base_symbols.
KeyShuffles == {<<2, 0, 4, 1, 3>>}

\* Outcome of random.shuffle(all_symbols): positions of reference_key + extras.
ObjectShuffle == <<5, 0, 6, 1, 7, 2, 8, 3, 9, 4>>

\* Where the objects are scattered at construction: the objects carrying the
\* symbols of the reference key on one spot, the extras on another.
StagePoint == <<150, 150>>
SparePoint == <<400, 200>>

\* Points the pointer / index fingertip is seen at.
BoundaryPoint == <<300, 570>>      \* distance 70 from slot 0
FarPoint == <<229, 500>>           \* distance 71 from slot 0, the nearest slot
PointSet ==
    {StagePoint, BoundaryPoint, FarPoint} \cup {slots[i] : i \in 1..(NumSlots - 1)}

\* Camera mode is followed for CamFrames frames.
CamFrames == 7

\* The scatter of the objects in camera mode: object 0 on StagePoint, object 1
\* overlapping it (and drawn above it), the others out of the hands' reach.
OverlapPoint == <<170, 170>>

-----------------------------------------------------------------------------
(* Helpers *)

Abs(n) == IF n < 0 THEN 0 - n ELSE n

\* Square of math.hypot(p[0] - q[0], p[1] - q[1]); the code compares
\* distances of integer points only with each other and with the radius.
Dist2(p, q) == (p[1] - q[1]) * (p[1] - q[1]) + (p[2] - q[2]) * (p[2] - q[2])

Min(a, b) == IF a <= b THEN a ELSE b
Max(a, b) == IF a >= b THEN a ELSE b
MinOf(S) == CHOOSE x \in S : \A y \in S : x <= y
MaxOf(S) == CHOOSE x \in S : \A y \in S : x >= y

\* np.hypot(dx, dy) for the keypoints of the model, whose fingertip-to-wrist
\* distances are whole numbers: the integer square root of dx^2 + dy^2.
Hypot(dx, dy) ==
    CHOOSE r \in 0..(Abs(dx) + Abs(dy)) :
        r * r <= dx * dx + dy * dy /\ dx * dx + dy * dy < (r + 1) * (r + 1)

\* random.randint(a, b): the extreme outcomes.
randint(a, b) == {a, b}

NumObjects == Len(base_symbols) + Len(extra_symbols)

SlotIds == 0..(NumSlots - 1)
ObjectIds == 0..(NumObjects - 1)

-----------------------------------------------------------------------------
(* GameLogic *)

\* create_objects: one object per symbol of all_symbols, in list order.
create_objects(all_symbols, positions) ==
    [j \in 0..(NumObjects - 1) |->
        [symbol |-> all_symbols[j + 1],
         pos |-> positions[j + 1],
         size |-> ObjectSize,
         in_slot |-> FALSE,
         slot_index |-> NoIndex]]

\* GameLogic.__init__ with the outcomes of its random draws; start_time is the
\* clock's origin (elapsed = 0).
NewGame(key_shuffle, positions) ==
    LET key == [i \in 0..(NumSlots - 1) |-> base_symbols[key_shuffle[i + 1] + 1]]
        key_and_extras == [k \in 0..(NumObjects - 1) |->
                              IF k < NumSlots THEN key[k]
                              ELSE extra_symbols[k - NumSlots + 1]]
        all_symbols == [j \in 1..NumObjects |-> key_and_extras[ObjectShuffle[j]]]
    IN  [reference_key |-> key,
         objects |-> create_objects(all_symbols, positions),
         slot_contents |-> [i \in 0..(NumSlots - 1) |-> None],
         selected_object |-> NoIndex,
         selected_offset |-> <<0, 0>>,
         game_over |-> FALSE,
         win |-> FALSE]

\* _detach_from_slot that empties the slot but leaves the object flagged.
_detach_from_slot_keeps_flag(g, j) ==
    IF ~g.objects[j].in_slot THEN g
    ELSE LET idx == g.objects[j].slot_index
         IN  IF idx # NoIndex /\ 0 <= idx /\ idx < NumSlots
             THEN [g EXCEPT !.slot_contents[idx] = None]
             ELSE g

\* _detach_from_slot without `self.slot_contents[idx] = None`.
_detach_from_slot_keeps_contents(g, j) ==
    IF ~g.objects[j].in_slot THEN g
    ELSE [g EXCEPT !.objects[j].in_slot = FALSE,
                   !.objects[j].slot_index = NoIndex]

\* _detach_from_slot(obj), obj = g.objects[j]
_detach_from_slot(g, j) ==
    IF ~g.objects[j].in_slot THEN g
    ELSE LET idx == g.objects[j].slot_index
             g1 == IF idx # NoIndex /\ 0 <= idx /\ idx < NumSlots
                   THEN [g EXCEPT !.slot_contents[idx] = None]
                   ELSE g
         IN  [g1 EXCEPT !.objects[j].in_slot = FALSE,
                        !.objects[j].slot_index = NoIndex]

\* The hit test of check_collision for one object.
Hit(obj, point) ==
    /\ Abs(point[1] - obj.pos[1]) < obj.size
    /\ Abs(point[2] - obj.pos[2]) < obj.size

\* The loop of check_collision: for obj in reversed(self.objects), from index j down.
RECURSIVE TopMostHit(_, _, _)
TopMostHit(g, point, j) ==
    IF j < 0 THEN NoIndex
    ELSE IF Hit(g.objects[j], point) THEN j
    ELSE TopMostHit(g, point, j - 1)

\* check_collision that returns the object whose centre is nearest to the
\* point among those hit, the top-most of equally near ones.
check_collision_nearest(g, point) ==
    LET hits == {k \in 0..(NumObjects - 1) : Hit(g.objects[k], point)}
        best == {k \in hits :
                    \A m \in hits : Dist2(point, g.objects[k].pos)
                                        <= Dist2(point, g.objects[m].pos)}
        j == IF hits = {} THEN NoIndex ELSE MaxOf(best)
    IN  IF j = NoIndex THEN [ret |-> NoIndex, g |-> g]
        ELSE [ret |-> j,
              g |-> IF g.objects[j].in_slot THEN _detach_from_slot(g, j) ELSE g]

\* check_collision without the call of _detach_from_slot.
check_collision_no_detach(g, point) ==
    [ret |-> TopMostHit(g, point, NumObjects - 1), g |-> g]

\* check_collision(point): the object returned (ret) and the game after the call.
check_collision(g, point) ==
    LET j == TopMostHit(g, point, NumObjects - 1)
    IN  IF j = NoIndex THEN [ret |-> NoIndex, g |-> g]
        ELSE [ret |-> j,
              g |-> IF g.objects[j].in_slot THEN _detach_from_slot(g, j) ELSE g]

\* The loop of check_slot_collision over enumerate(self.slots), from slot i on;
\* closest_idx = NoIndex stands for closest_dist = inf.
RECURSIVE ClosestSlot(_, _, _, _)
ClosestSlot(pos, i, closest_idx, closest_d2) ==
    IF i >= NumSlots THEN [idx |-> closest_idx, d2 |-> closest_d2]
    ELSE LET d2 == Dist2(pos, slots[i])
         IN  IF closest_idx = NoIndex \/ d2 < closest_d2
             THEN ClosestSlot(pos, i + 1, i, d2)
             ELSE ClosestSlot(pos, i + 1, closest_idx, closest_d2)

\* check_slot_collision that measures from the point passed in (the
\* fingertip), also while an object is held.
check_slot_collision_by_point(g, point) ==
    LET c == ClosestSlot(point, 0, NoIndex, 0)
    IN  IF c.d2 <= slot_snap_radius * slot_snap_radius THEN c.idx ELSE NoIndex

\* check_slot_collision with `closest_dist < self.slot_snap_radius`.
check_slot_collision_strict(g, point) ==
    LET pos == IF g.selected_object # NoIndex
               THEN g.objects[g.selected_object].pos
               ELSE point
        c == ClosestSlot(pos, 0, NoIndex, 0)
    IN  IF c.d2 < slot_snap_radius * slot_snap_radius THEN c.idx ELSE NoIndex

\* check_slot_collision(point): slot index or NoIndex.
check_slot_collision(g, point) ==
    LET pos == IF g.selected_object # NoIndex
               THEN g.objects[g.selected_object].pos
               ELSE point
        c == ClosestSlot(pos, 0, NoIndex, 0)
    IN  IF c.d2 <= slot_snap_radius * slot_snap_radius THEN c.idx ELSE NoIndex

\* update_object_position(obj, new_pos)
update_object_position(g, j, new_pos) ==
    [g EXCEPT !.objects[j].pos = new_pos]

\* check_win_condition that leaves the last slot out of the comparison.
check_win_condition_short(g) ==
    IF \A i \in 0..(NumSlots - 2) : g.slot_contents[i] = g.reference_key[i]
    THEN [g EXCEPT !.win = TRUE, !.game_over = TRUE]
    ELSE g

\* check_win_condition that takes any full row of slots for the key.
check_win_condition_when_full(g) ==
    IF \A i \in 0..(NumSlots - 1) : g.slot_contents[i] # None
    THEN [g EXCEPT !.win = TRUE, !.game_over = TRUE]
    ELSE g

\* check_win_condition without `self.game_over = True`.
check_win_condition_without_game_over(g) ==
    IF \A i \in 0..(NumSlots - 1) : g.slot_contents[i] = g.reference_key[i]
    THEN [g EXCEPT !.win = TRUE]
    ELSE g

\* check_win_condition()
check_win_condition(g) ==
    IF \A i \in 0..(NumSlots - 1) : g.slot_contents[i] = g.reference_key[i]
    THEN [g EXCEPT !.win = TRUE, !.game_over = TRUE]
    ELSE g

\* place_in_slot without the call of check_win_condition.
place_in_slot_without_win_check(g, j, slot_index) ==
    IF slot_index = NoIndex THEN g
    ELSE IF g.slot_contents[slot_index] # None THEN g
    ELSE [g EXCEPT !.objects[j].in_slot = TRUE,
                   !.objects[j].slot_index = slot_index,
                   !.objects[j].pos = slots[slot_index],
                   !.slot_contents[slot_index] = g.objects[j].symbol]

\* place_in_slot(obj, slot_index)
place_in_slot(g, j, slot_index) ==
    IF slot_index = NoIndex THEN g
    ELSE IF g.slot_contents[slot_index] # None THEN g
    ELSE check_win_condition(
            [g EXCEPT !.objects[j].in_slot = TRUE,
                      !.objects[j].slot_index = slot_index,
                      !.objects[j].pos = slots[slot_index],
                      !.slot_contents[slot_index] = g.objects[j].symbol])

\* The positions remove_from_slot draws from.
RespawnPoints ==
    {<<x, y>> :
        x \in randint(box_area[1] + RespawnInset,
                      box_area[1] + box_area[3] - RespawnInset),
        y \in randint(box_area[2] + RespawnInset,
                      box_area[2] + box_area[4] - RespawnInset)}

\* remove_from_slot(obj, keep_pos=False): the games it may leave, one per
\* position drawn.
remove_from_slot(g, j) ==
    IF ~g.objects[j].in_slot THEN {g}
    ELSE LET idx == g.objects[j].slot_index
             g1 == IF idx # NoIndex /\ 0 <= idx /\ idx < NumSlots
                   THEN [g EXCEPT !.slot_contents[idx] = None]
                   ELSE g
         IN  {[g1 EXCEPT !.objects[j].in_slot = FALSE,
                         !.objects[j].slot_index = NoIndex,
                         !.objects[j].pos = r] : r \in RespawnPoints}

\* The second half of update(): the first object flagged for an occupied slot
\* is put on the slot's centre.
FirstInSlot(g, i) ==
    LET js == {j \in 0..(NumObjects - 1) :
                  g.objects[j].in_slot /\ g.objects[j].slot_index = i}
    IN  IF js = {} THEN NoIndex ELSE CHOOSE j \in js : \A k \in js : j <= k

SnapToSlots(g) ==
    [g EXCEPT !.objects =
        [j \in 0..(NumObjects - 1) |->
            LET o == g.objects[j]
            IN  IF /\ o.in_slot
                   /\ o.slot_index # NoIndex
                   /\ g.slot_contents[o.slot_index] # None
                   /\ FirstInSlot(g, o.slot_index) = j
                THEN [o EXCEPT !.pos = slots[o.slot_index]]
                ELSE o]]

\* update() whose timer does not end the game while an object is held.
update_waits_for_release(g, t) ==
    LET remaining == time_limit * UnitsPerSecond - t
        g1 == IF remaining <= 0 /\ ~g.win /\ g.selected_object = NoIndex
              THEN [g EXCEPT !.game_over = TRUE]
              ELSE g
    IN  SnapToSlots(g1)

\* update() whose timeout ignores `not self.win` and takes the win back.
update_timeout_loses(g, t) ==
    LET remaining == time_limit * UnitsPerSecond - t
        g1 == IF remaining <= 0
              THEN [g EXCEPT !.game_over = TRUE, !.win = FALSE]
              ELSE g
    IN  SnapToSlots(g1)

\* update() whose timeout assigns `self.game_over = not self.win`.
update_timeout_assigns(g, t) ==
    LET remaining == time_limit * UnitsPerSecond - t
        g1 == IF remaining <= 0
              THEN [g EXCEPT !.game_over = ~g.win]
              ELSE g
    IN  SnapToSlots(g1)

\* update() with `remaining < 0`.
update_strict(g, t) ==
    LET remaining == time_limit * UnitsPerSecond - t
        g1 == IF remaining < 0 /\ ~g.win
              THEN [g EXCEPT !.game_over = TRUE]
              ELSE g
    IN  SnapToSlots(g1)

\* update() when time.time() - self.start_time is t.
update(g, t) ==
    LET remaining == time_limit * UnitsPerSecond - t
        g1 == IF remaining <= 0 /\ ~g.win
              THEN [g EXCEPT !.game_over = TRUE]
              ELSE g
    IN  SnapToSlots(g1)

-----------------------------------------------------------------------------
(* HandTracker *)

NoBox == <<>>

\* HandTracker.__init__: the fields the loop reads.
NewTracker ==
    [hand_detected |-> FALSE, hand_bbox |-> NoBox, hand_state |-> "none"]

\* diag = max(1.0, np.hypot(w, h)), squared.
Diag2(bbox_w, bbox_h) == Max(1, bbox_w * bbox_w + bbox_h * bbox_h)

\* hypot(...) / diag < threshold / 100 for a distance and a diagonal given by
\* their squares and an even threshold
\* (squares of 100 * dist < threshold * diag, both sides divided by 2).
DistBelow(dist2, threshold, diag2) ==
    50 * 50 * dist2 < (threshold \div 2) * (threshold \div 2) * diag2

\* Entry i of the Python list points_xy (landmark i).
Landmark(points_xy, i) == points_xy[i + 1]

\* The classification with the spread of the fingers tested first.
HandState_spread_first(points_xy, bbox_w, bbox_h) ==
    LET thumb == Landmark(points_xy, 4)
        index == Landmark(points_xy, 8)
        wrist == Landmark(points_xy, 0)
        diag2 == Diag2(bbox_w, bbox_h)
        tip_sum == Hypot(Landmark(points_xy, 4)[1] - wrist[1],
                         Landmark(points_xy, 4)[2] - wrist[2])
                   + Hypot(Landmark(points_xy, 8)[1] - wrist[1],
                           Landmark(points_xy, 8)[2] - wrist[2])
                   + Hypot(Landmark(points_xy, 12)[1] - wrist[1],
                           Landmark(points_xy, 12)[2] - wrist[2])
                   + Hypot(Landmark(points_xy, 16)[1] - wrist[1],
                           Landmark(points_xy, 16)[2] - wrist[2])
                   + Hypot(Landmark(points_xy, 20)[1] - wrist[1],
                           Landmark(points_xy, 20)[2] - wrist[2])
        is_pinch_by_dist == DistBelow(Dist2(thumb, index), norm_pinch_threshold, diag2)
        is_small_box == diag2 < small_box_diag * small_box_diag
        is_spread ==
            (10 * tip_sum) * (10 * tip_sum)
                > ((5 * open_spread_threshold) \div 10)
                      * ((5 * open_spread_threshold) \div 10) * diag2
    IN  IF is_spread THEN "open"
        ELSE IF is_pinch_by_dist \/ is_small_box THEN "pinch" ELSE "none"

\* The classification without the small-box rule.
HandState_by_dist_only(points_xy, bbox_w, bbox_h) ==
    LET thumb == Landmark(points_xy, 4)
        index == Landmark(points_xy, 8)
        wrist == Landmark(points_xy, 0)
        diag2 == Diag2(bbox_w, bbox_h)
        tip_sum == Hypot(Landmark(points_xy, 4)[1] - wrist[1],
                         Landmark(points_xy, 4)[2] - wrist[2])
                   + Hypot(Landmark(points_xy, 8)[1] - wrist[1],
                           Landmark(points_xy, 8)[2] - wrist[2])
                   + Hypot(Landmark(points_xy, 12)[1] - wrist[1],
                           Landmark(points_xy, 12)[2] - wrist[2])
                   + Hypot(Landmark(points_xy, 16)[1] - wrist[1],
                           Landmark(points_xy, 16)[2] - wrist[2])
                   + Hypot(Landmark(points_xy, 20)[1] - wrist[1],
                           Landmark(points_xy, 20)[2] - wrist[2])
        is_pinch_by_dist == DistBelow(Dist2(thumb, index), norm_pinch_threshold, diag2)
        is_spread ==
            (10 * tip_sum) * (10 * tip_sum)
                > ((5 * open_spread_threshold) \div 10)
                      * ((5 * open_spread_threshold) \div 10) * diag2
    IN  IF is_pinch_by_dist THEN "pinch"
        ELSE IF is_spread THEN "open" ELSE "none"

\* The classification of get_mediapipe_hand for the keypoints points_xy with
\* the bounding box (bbox_w, bbox_h): "pinch", "open" or "none".
HandState(points_xy, bbox_w, bbox_h) ==
    LET thumb == Landmark(points_xy, 4)
        index == Landmark(points_xy, 8)
        wrist == Landmark(points_xy, 0)
        diag2 == Diag2(bbox_w, bbox_h)
        tip_sum == Hypot(Landmark(points_xy, 4)[1] - wrist[1],
                         Landmark(points_xy, 4)[2] - wrist[2])
                   + Hypot(Landmark(points_xy, 8)[1] - wrist[1],
                           Landmark(points_xy, 8)[2] - wrist[2])
                   + Hypot(Landmark(points_xy, 12)[1] - wrist[1],
                           Landmark(points_xy, 12)[2] - wrist[2])
                   + Hypot(Landmark(points_xy, 16)[1] - wrist[1],
                           Landmark(points_xy, 16)[2] - wrist[2])
                   + Hypot(Landmark(points_xy, 20)[1] - wrist[1],
                           Landmark(points_xy, 20)[2] - wrist[2])
        \* thumb_index_dist < 0.18, with thumb_index_dist = hypot(...) / diag
        is_pinch_by_dist == DistBelow(Dist2(thumb, index), norm_pinch_threshold, diag2)
        is_small_box == diag2 < small_box_diag * small_box_diag
        \* avg_tip_to_wrist > 0.38, with avg_tip_to_wrist = (tip_sum / 5) / diag
        \* (squares of 100 * tip_sum > 5 * 38 * diag, both sides divided by 10)
        is_spread ==
            (10 * tip_sum) * (10 * tip_sum)
                > ((5 * open_spread_threshold) \div 10)
                      * ((5 * open_spread_threshold) \div 10) * diag2
    IN  IF is_pinch_by_dist \/ is_small_box THEN "pinch"
        ELSE IF is_spread THEN "open" ELSE "none"

\* get_mediapipe_hand without the reset of the fields at its start.
get_mediapipe_hand_without_reset(t, points_xy) ==
    IF points_xy = <<>>
    THEN [tracker |-> t, index_tip |-> NoPoint, thumb_tip |-> NoPoint]
    ELSE LET xs == {points_xy[k][1] : k \in 1..Len(points_xy)}
             ys == {points_xy[k][2] : k \in 1..Len(points_xy)}
             x_min == Max(MinOf(xs), 0)
             x_max == Min(MaxOf(xs), WIDTH - 1)
             y_min == Max(MinOf(ys), 0)
             y_max == Min(MaxOf(ys), HEIGHT - 1)
             bbox_w == x_max - x_min
             bbox_h == y_max - y_min
         IN  [tracker |->
                  [t EXCEPT !.hand_detected = TRUE,
                            !.hand_bbox = <<x_min, y_min, bbox_w, bbox_h>>,
                            !.hand_state = HandState(points_xy, bbox_w, bbox_h)],
              index_tip |-> Landmark(points_xy, 8),
              thumb_tip |-> Landmark(points_xy, 4)]

\* get_mediapipe_hand(frame) on the tracker t, where the detector's landmarks
\* in pixel coordinates are points_xy (<<>>: no hand in the frame): the tracker
\* after the call and the two tips returned.
get_mediapipe_hand(t, points_xy) ==
    LET t0 == [t EXCEPT !.hand_detected = FALSE,
                        !.hand_bbox = NoBox,
                        !.hand_state = "none"]
    IN  IF points_xy = <<>>
        THEN [tracker |-> t0, index_tip |-> NoPoint, thumb_tip |-> NoPoint]
        ELSE LET xs == {points_xy[k][1] : k \in 1..Len(points_xy)}
                 ys == {points_xy[k][2] : k \in 1..Len(points_xy)}
                 x_min == Max(MinOf(xs), 0)
                 x_max == Min(MaxOf(xs), WIDTH - 1)
                 y_min == Max(MinOf(ys), 0)
                 y_max == Min(MaxOf(ys), HEIGHT - 1)
                 bbox_w == x_max - x_min
                 bbox_h == y_max - y_min
             IN  [tracker |->
                      [t0 EXCEPT !.hand_detected = TRUE,
                                 !.hand_bbox = <<x_min, y_min, bbox_w, bbox_h>>,
                                 !.hand_state = HandState(points_xy, bbox_w, bbox_h)],
                  index_tip |-> Landmark(points_xy, 8),
                  thumb_tip |-> Landmark(points_xy, 4)]

\* is_pinching without `or self.hand_state == "pinch"`.
is_pinching_by_dist_only(t, p1, p2) ==
    IF ~t.hand_detected \/ t.hand_bbox = NoBox \/ p1 = NoPoint \/ p2 = NoPoint
    THEN FALSE
    ELSE DistBelow(Dist2(p1, p2), norm_pinch_threshold,
                   Diag2(t.hand_bbox[3], t.hand_bbox[4]))

\* is_pinching(p1, p2) in camera mode (use_mouse false, thresh None).
is_pinching(t, p1, p2) ==
    IF ~t.hand_detected \/ t.hand_bbox = NoBox \/ p1 = NoPoint \/ p2 = NoPoint
    THEN FALSE
    ELSE LET diag2 == Diag2(t.hand_bbox[3], t.hand_bbox[4])
         IN  \/ DistBelow(Dist2(p1, p2), norm_pinch_threshold, diag2)
             \/ t.hand_state = "pinch"

-----------------------------------------------------------------------------
(* main(): one iteration of the frame loop *)

\* Pick-up branch: game.selected_object is None and is_action.
PickUp(g, point) ==
    LET c == check_collision(g, point)
        g1 == [c.g EXCEPT !.selected_object = c.ret]
    IN  IF c.ret # NoIndex
        THEN [g1 EXCEPT !.selected_offset =
                 <<point[1] - g1.objects[c.ret].pos[1],
                   point[2] - g1.objects[c.ret].pos[2]>>]
        ELSE g1

\* Drag branch that puts the object's centre on the point.
Drag_without_offset(g, point) ==
    update_object_position(g, g.selected_object, point)

\* Drag branch: an object is selected and is_action.
Drag(g, point) ==
    update_object_position(g, g.selected_object,
        <<point[1] - g.selected_offset[1], point[2] - g.selected_offset[2]>>)

\* Release branch: an object is selected and not is_action.  The games the
\* branch may leave (remove_from_slot draws a position at random).
Release(g, point) ==
    LET slot_index == check_slot_collision(g, point)
        after == IF slot_index # NoIndex
                 THEN {place_in_slot(g, g.selected_object, slot_index)}
                 ELSE remove_from_slot(g, g.selected_object)
    IN  {[g1 EXCEPT !.selected_object = NoIndex] : g1 \in after}

\* The interaction block without the test of game_over.
Interact_after_game_over(g, point, is_action) ==
    IF point = NoPoint THEN {g}
    ELSE IF is_action
         THEN IF g.selected_object = NoIndex THEN {PickUp(g, point)}
              ELSE {Drag(g, point)}
    ELSE IF g.selected_object # NoIndex THEN Release(g, point)
    ELSE {g}

\* The interaction block with a lost hand taken for a release.
Interact_release_on_loss(g, point, is_action) ==
    IF g.game_over THEN {g}
    ELSE IF point = NoPoint
         THEN IF g.selected_object # NoIndex THEN Release(g, point) ELSE {g}
    ELSE IF is_action
         THEN IF g.selected_object = NoIndex THEN {PickUp(g, point)}
              ELSE {Drag(g, point)}
    ELSE IF g.selected_object # NoIndex THEN Release(g, point)
    ELSE {g}

\* The interaction block of the loop body.  point = NoPoint: camera mode without
\* a hand (index_tip is None).
Interact(g, point, is_action) ==
    IF g.game_over \/ point = NoPoint THEN {g}
    ELSE IF is_action
         THEN IF g.selected_object = NoIndex THEN {PickUp(g, point)}
              ELSE {Drag(g, point)}
    ELSE IF g.selected_object # NoIndex THEN Release(g, point)
    ELSE {g}

\* One frame that takes d clock units: interaction, then game.update().
Tick(point, is_action, d) ==
    /\ elapsed + d <= MaxElapsed
    /\ elapsed' = elapsed + d
    /\ \E g1 \in Interact(game, point, is_action) : game' = update(g1, elapsed')
    /\ detached' = /\ game.selected_object = NoIndex
                   /\ game'.selected_object # NoIndex
                   /\ game.objects[game'.selected_object].in_slot
    /\ placed' = \E j \in 0..(NumObjects - 1) :
                     ~game.objects[j].in_slot /\ game'.objects[j].in_slot
    /\ UNCHANGED <<tracker, index_tip, thumb_tip>>

\* The scatter of the objects at construction (the draws of create_objects).
InitialPositions ==
    [j \in 1..NumObjects |->
        IF ObjectShuffle[j] < NumSlots THEN StagePoint ELSE SparePoint]

\* K_r: game = GameLogic(...)
Restart(key_shuffle) ==
    /\ game' = NewGame(key_shuffle, InitialPositions)
    /\ elapsed' = 0
    /\ detached' = FALSE
    /\ placed' = FALSE
    /\ UNCHANGED <<tracker, index_tip, thumb_tip>>

Init ==
    /\ elapsed = 0
    /\ detached = FALSE
    /\ placed = FALSE
    /\ tracker = NewTracker
    /\ index_tip = NoPoint
    /\ thumb_tip = NoPoint
    /\ \E key_shuffle \in KeyShuffles :
          game = NewGame(key_shuffle, InitialPositions)

Inputs ==
    {<<p, a>> : p \in PointSet, a \in BOOLEAN} \cup {<<NoPoint, FALSE>>}

Next ==
    \/ \E in \in Inputs, d \in FrameUnits : Tick(in[1], in[2], d)
    \/ \E key_shuffle \in KeyShuffles : Restart(key_shuffle)

Spec == Init /\ [][Next]_vars

-----------------------------------------------------------------------------
(* main() in camera mode: the inputs of a frame come from the HandTracker *)

\* The 21 landmarks of a hand in pixel coordinates (the list points_xy):
\* landmark 0 the wrist, 4 the thumb tip, 8 the index tip, 12, 16 and 20 the
\* other fingertips, the remaining ones on one spot.
Hand(wrist, thumb, index, tips, rest) ==
    [k \in 1..21 |->
        IF k - 1 = 0 THEN wrist
        ELSE IF k - 1 = 4 THEN thumb
        ELSE IF k - 1 = 8 THEN index
        ELSE IF k - 1 \in {12, 16, 20} THEN tips
        ELSE rest]

\* results.multi_hand_landmarks is None: points_xy stays [].
NoHand == <<>>

\* Thumb and index tip together on p, the wrist 150 below.
PinchAt(p) ==
    Hand(<<p[1], p[2] + 150>>, p, p, <<p[1], p[2] + 150>>, <<p[1], p[2] + 150>>)

\* A hand in a box of 30 x 40 pixels whose thumb and index tip are apart.
SmallHand ==
    Hand(<<250, 250>>, <<280, 290>>, <<250, 250>>, <<250, 250>>, <<250, 250>>)

\* A spread hand: tips 200 above the wrist, thumb 100 from the index tip.
OpenHand ==
    Hand(<<600, 500>>, <<600, 400>>, <<600, 300>>, <<600, 300>>, <<600, 300>>)

\* A closed hand: fingertips on the wrist, thumb 40 from the index tip, the
\* knuckles 200 above.
ClosedHand ==
    Hand(<<600, 500>>, <<600, 460>>, <<600, 500>>, <<600, 500>>, <<600, 300>>)

\* A hand whose landmarks all lie to the right of the frame.
OffFrameHand ==
    Hand(<<1200, 300>>, <<1200, 300>>, <<1250, 300>>, <<1200, 300>>, <<1200, 300>>)

\* Where the pinching hands of the model hold thumb and index tip.
PinchPoints == {<<160, 160>>, <<145, 145>>, <<205, 205>>, <<360, 510>>}

Hands ==
    {PinchAt(p) : p \in PinchPoints}
        \cup {SmallHand, OpenHand, ClosedHand, OffFrameHand, NoHand}

\* One camera frame that takes d clock units: get_hand_landmarks, the
\* interaction block, then game.update().
CameraTick(points_xy, d) ==
    /\ elapsed + d <= CamFrames * FrameLength
    /\ elapsed' = elapsed + d
    /\ LET r == get_mediapipe_hand(tracker, points_xy)
           is_action == is_pinching(r.tracker, r.index_tip, r.thumb_tip)
       IN  /\ tracker' = r.tracker
           /\ index_tip' = r.index_tip
           /\ thumb_tip' = r.thumb_tip
           /\ \E g1 \in Interact(game, r.index_tip, is_action) :
                  game' = update(g1, elapsed')
    /\ detached' = /\ game.selected_object = NoIndex
                   /\ game'.selected_object # NoIndex
                   /\ game.objects[game'.selected_object].in_slot
    /\ placed' = \E j \in 0..(NumObjects - 1) :
                     ~game.objects[j].in_slot /\ game'.objects[j].in_slot

\* The scatter of the objects in camera mode (the draws of create_objects).
CameraPositions ==
    [j \in 1..NumObjects |->
        IF j = 1 THEN StagePoint
        ELSE IF j = 2 THEN OverlapPoint
        ELSE SparePoint]

InitCamera ==
    /\ elapsed = 0
    /\ detached = FALSE
    /\ placed = FALSE
    /\ tracker = NewTracker
    /\ index_tip = NoPoint
    /\ thumb_tip = NoPoint
    /\ \E key_shuffle \in KeyShuffles :
          game = NewGame(key_shuffle, CameraPositions)

NextCamera ==
    \/ \E points_xy \in Hands, d \in FrameUnits : CameraTick(points_xy, d)
    \/ \E key_shuffle \in KeyShuffles : Restart(key_shuffle)

SpecCamera == InitCamera /\ [][NextCamera]_vars

-----------------------------------------------------------------------------
(* The frame loop kept running, without restart *)

\* Inputs of the frames: a pinch on the staged objects, a pinch on slot 1, an
\* open hand and no hand.
LiveInputs ==
    {<<StagePoint, TRUE>>, <<slots[1], TRUE>>, <<slots[1], FALSE>>,
     <<NoPoint, FALSE>>}

NextLive == \E in \in LiveInputs, d \in FrameUnits : Tick(in[1], in[2], d)

\* `while running`: the loop takes frame after frame.
SpecLive == Init /\ [][NextLive]_vars /\ WF_vars(NextLive)

-----------------------------------------------------------------------------
(* Construction with the positions create_objects may draw *)

\* create_objects: x = random.randint(120, 460), y = random.randint(120, 280).
DrawnPoints == {<<x, y>> : x \in randint(120, 460), y \in randint(120, 280)}

\* A scatter with all the objects on one drawn point.
ScatterPositions(p) == [j \in 1..NumObjects |-> p]

InitScatter ==
    /\ elapsed = 0
    /\ detached = FALSE
    /\ placed = FALSE
    /\ tracker = NewTracker
    /\ index_tip = NoPoint
    /\ thumb_tip = NoPoint
    /\ \E key_shuffle \in KeyShuffles, p \in DrawnPoints :
          game = NewGame(key_shuffle, ScatterPositions(p))

\* K_r with the positions the new game draws.
RestartScatter(key_shuffle, p) ==
    /\ game' = NewGame(key_shuffle, ScatterPositions(p))
    /\ elapsed' = 0
    /\ detached' = FALSE
    /\ placed' = FALSE
    /\ UNCHANGED <<tracker, index_tip, thumb_tip>>

NextScatter ==
    \/ \E points_xy \in Hands, d \in FrameUnits : CameraTick(points_xy, d)
    \/ \E key_shuffle \in KeyShuffles, p \in DrawnPoints :
          RestartScatter(key_shuffle, p)

SpecScatter == InitScatter /\ [][NextScatter]_vars

-----------------------------------------------------------------------------
(* Vocabulary of the properties *)

TimeLimitUnits == time_limit * UnitsPerSecond

\* A step of the frame loop (a restart sets the clock back to 0 instead).
IsFrame == elapsed' > elapsed

\* The frame releases the held object: the game is on, something is held
\* before the frame and nothing after it.
IsRelease ==
    /\ IsFrame
    /\ ~game.game_over
    /\ game.selected_object # NoIndex
    /\ game'.selected_object = NoIndex

\* The frame picks object j up: the game is on, nothing is held before the
\* frame and j is held after it.
IsPickUp(j) ==
    /\ IsFrame
    /\ ~game.game_over
    /\ game.selected_object = NoIndex
    /\ game'.selected_object = j

\* The slot nearest to pos (the lowest index among equally near ones).
NearestSlot(pos) ==
    CHOOSE i \in SlotIds :
        /\ \A k \in SlotIds : Dist2(pos, slots[i]) <= Dist2(pos, slots[k])
        /\ \A k \in SlotIds : k < i => Dist2(pos, slots[i]) < Dist2(pos, slots[k])

WithinSnap(pos, i) == Dist2(pos, slots[i]) <= 70 * 70

\* pos lies in the staging box (x, y, w, h), edges included.
InStagingBox(pos) ==
    /\ box_area[1] <= pos[1] /\ pos[1] <= box_area[1] + box_area[3]
    /\ box_area[2] <= pos[2] /\ pos[2] <= box_area[2] + box_area[4]

SlotsMatchKey(g) ==
    \A i \in SlotIds :
        g.slot_contents[i] # None /\ g.slot_contents[i] = g.reference_key[i]

\* The observation of the frame just taken is a pinch at a point.
IsPinchFrame ==
    /\ IsFrame
    /\ index_tip' # NoPoint
    /\ is_pinching(tracker', index_tip', thumb_tip')

\* The centre of obj is nearer to point than the object's size.
WithinSize(obj, point) == Dist2(point, obj.pos) < obj.size * obj.size

\* The pinch rules of the classifier, read off an observation: the thumb tip
\* is nearer to the index tip than 0.18 of the box diagonal; the box diagonal
\* is below 120.
ThumbOnIndex ==
    DistBelow(Dist2(thumb_tip, index_tip), 18,
              Diag2(tracker.hand_bbox[3], tracker.hand_bbox[4]))

SmallBox == Diag2(tracker.hand_bbox[3], tracker.hand_bbox[4]) < 120 * 120

\* A freshly constructed puzzle.
FreshGames == {NewGame(k, InitialPositions) : k \in KeyShuffles}

-----------------------------------------------------------------------------
(* Properties *)

\* C1: in every reachable state, for every slot i, the slot's occupant is
\* non-none if and only if exactly one object has slot_index = i.
C1_SlotOccupancy ==
    \A i \in SlotIds :
        (game.slot_contents[i] # None)
            <=> (Cardinality({j \in ObjectIds : game.objects[j].slot_index = i}) = 1)

\* C1 witness: an object was just picked up out of a slot while another slot
\* is still occupied.
C1_Witness ==
    /\ detached
    /\ \E i \in SlotIds : game.slot_contents[i] # None

\* C2: a release with the held object's centre within the snap radius (70,
\* inclusive) of its nearest slot, that slot being unoccupied, leaves the object
\* exactly on the slot's centre with slot_index the slot's index and exactly one
\* slot holding the object's symbol (and, being a release, nothing held).
C2_ReleaseSnaps ==
    [][IsRelease =>
        LET j == game.selected_object
            pos == game.objects[j].pos
            i == NearestSlot(pos)
        IN  (WithinSnap(pos, i) /\ game.slot_contents[i] = None) =>
                /\ game'.objects[j].pos = slots[i]
                /\ game'.objects[j].slot_index = i
                /\ {k \in SlotIds :
                       game'.slot_contents[k] = game.objects[j].symbol} = {i}
                /\ game'.selected_object = NoIndex]_vars

\* C2 witness: an object sits in slot 0, which is only ever approached at
\* distance exactly 70 (BoundaryPoint), and nothing is held.
C2_Witness ==
    /\ game.selected_object = NoIndex
    /\ \E j \in ObjectIds :
          /\ game.objects[j].in_slot
          /\ game.objects[j].slot_index = 0
          /\ game.objects[j].pos = slots[0]
          /\ game.slot_contents[0] = game.objects[j].symbol

\* C3 (as claimed): a release with the held object's centre farther than 70
\* from every slot moves the object to a position inside the staging box and
\* leaves it unslotted.
C3_FarReleaseRespawns ==
    [][IsRelease =>
        LET j == game.selected_object
            pos == game.objects[j].pos
        IN  (\A i \in SlotIds : ~WithinSnap(pos, i)) =>
                /\ InStagingBox(game'.objects[j].pos)
                /\ game'.objects[j].slot_index = NoIndex]_vars

\* C4 (as claimed): a release within the snap radius of a nearest slot that is
\* occupied changes neither the slots nor any other object, gives the held
\* object a position inside the staging box, leaves it unslotted and leaves
\* nothing held.
C4_OccupiedFallsBack ==
    [][IsRelease =>
        LET j == game.selected_object
            pos == game.objects[j].pos
            i == NearestSlot(pos)
        IN  (WithinSnap(pos, i) /\ game.slot_contents[i] # None) =>
                /\ game'.slot_contents = game.slot_contents
                /\ \A k \in ObjectIds \ {j} : game'.objects[k] = game.objects[k]
                /\ InStagingBox(game'.objects[j].pos)
                /\ game'.objects[j].slot_index = NoIndex
                /\ ~game'.objects[j].in_slot
                /\ game'.selected_object = NoIndex]_vars

\* C5: when the idle controller picks up an object that occupies slot i, then
\* right after the pick-up slot i is empty, the object's slot_index is none and
\* the object's position is what it was just before.
C5_PickUpDetaches ==
    [][\A j \in ObjectIds :
          (IsPickUp(j) /\ game.objects[j].in_slot) =>
              /\ game'.slot_contents[game.objects[j].slot_index] = None
              /\ game'.objects[j].slot_index = NoIndex
              /\ ~game'.objects[j].in_slot
              /\ game'.objects[j].pos = game.objects[j].pos]_vars

\* C5 witness: the latest frame picked the held object up out of a slot; it
\* still sits on that slot's centre and the slot is empty.
C5_Witness ==
    /\ detached
    /\ game.selected_object # NoIndex
    /\ \E i \in SlotIds :
          /\ game.objects[game.selected_object].pos = slots[i]
          /\ game.slot_contents[i] = None

\* C6: right after any successful placement, win holds if and only if all
\* slots are occupied and hold the reference key's symbols index by index, and
\* then game_over holds too; with the first two symbols of the key swapped in
\* slots 0 and 1 there is no win.
C6_WinIffKey ==
    /\ [][(\E j \in ObjectIds : ~game.objects[j].in_slot /\ game'.objects[j].in_slot) =>
            /\ game'.win <=> SlotsMatchKey(game')
            /\ game'.win => game'.game_over]_vars
    /\ [](game.slot_contents =
            [i \in SlotIds |->
                IF i = 0 THEN game.reference_key[1]
                ELSE IF i = 1 THEN game.reference_key[0]
                ELSE game.reference_key[i]]
          => ~game.win)

\* C6 witness: the last piece has just been placed with time to spare: the
\* slots spell the key and the game is won.
C6_Witness ==
    /\ game.win
    /\ game.game_over
    /\ SlotsMatchKey(game)
    /\ elapsed < TimeLimitUnits

\* C7: in every reachable state win implies game_over.
C7_WinImpliesGameOver == game.win => game.game_over

\* C7 witness: a won game.
C7_Witness == game.win /\ game.selected_object = NoIndex

\* C8: once win holds it holds after every later frame of that puzzle.
C8_WinStays == [][(game.win /\ IsFrame) => game'.win]_vars

\* C8 witness: a game won earlier whose timer has since run out.
C8_Witness == game.win /\ elapsed >= TimeLimitUnits

\* C9: no frame takes game_over from true to false; a step that does is a
\* restart, which leaves a freshly constructed puzzle (game_over false).
C9_GameOverStays ==
    /\ [][(game.game_over /\ IsFrame) => game'.game_over]_vars
    /\ [][(game.game_over /\ ~game'.game_over) =>
            (game' \in FreshGames /\ elapsed' = 0)]_vars

\* C9 witness: a game that ended by timeout.
C9_Witness == game.game_over /\ ~game.win

\* C10: a frame whose timer update reads elapsed >= time_limit ends with
\* game_over; if win held before the frame, win still holds after it.
C10_Timeout ==
    [][(IsFrame /\ elapsed' >= TimeLimitUnits) =>
          /\ game'.game_over
          /\ game.win => (game'.win /\ game'.game_over)]_vars

\* C10 witness: the timer update read exactly time_limit and ended an unwon game.
C10_Witness ==
    /\ elapsed = TimeLimitUnits
    /\ game.game_over
    /\ ~game.win

\* C11: a frame that starts with the game still on, whose timer update reads
\* elapsed >= time_limit and whose interaction places the last correct piece,
\* ends with win and game_over both true.
C11_LateWin ==
    [][(/\ IsRelease
        /\ elapsed' >= TimeLimitUnits
        /\ ~SlotsMatchKey(game)
        /\ SlotsMatchKey(game')) => (game'.win /\ game'.game_over)]_vars

\* C11 witness: the latest frame placed a piece, its timer update read
\* time_limit, and the game is won.
C11_Witness ==
    /\ placed
    /\ elapsed >= TimeLimitUnits
    /\ SlotsMatchKey(game)
    /\ game.win
    /\ game.game_over

\* C12 (as claimed): with nothing held and a pinch at point p, an object is
\* picked up only if the distance from p to its centre is less than its size,
\* and nothing is picked up when p is within no object's size.
C12_PickUpWithinSize ==
    [][(IsPinchFrame /\ ~game.game_over /\ game.selected_object = NoIndex) =>
          /\ \A j \in ObjectIds :
                 game'.selected_object = j => WithinSize(game.objects[j], index_tip')
          /\ (\A j \in ObjectIds : ~WithinSize(game.objects[j], index_tip'))
                 => game'.selected_object = NoIndex]_vars

\* C16 (as claimed): when the pinch point lies within several objects, the one
\* picked up is the one whose centre is nearest to the point, the top-most
\* being preferred only among equally near ones.
C16_NearestPicked ==
    [][\A j \in ObjectIds :
          (IsPinchFrame /\ IsPickUp(j)) =>
              \A k \in ObjectIds :
                  WithinSize(game.objects[k], index_tip') =>
                      LET dj == Dist2(index_tip', game.objects[j].pos)
                          dk == Dist2(index_tip', game.objects[k].pos)
                      IN  dj < dk \/ (dj = dk /\ k <= j)]_vars

\* C16 (amended): when the pinch point lies within one or several objects, an
\* object is picked up and none of the objects the point lies within is above
\* it in the object list, whatever their distances to the point.
C16_TopMostPicked ==
    [][(IsPinchFrame /\ ~game.game_over /\ game.selected_object = NoIndex) =>
          LET within == {k \in ObjectIds : WithinSize(game.objects[k], index_tip')}
          IN  within # {} =>
                  /\ game'.selected_object # NoIndex
                  /\ \A k \in within : k <= game'.selected_object]_vars

\* C16 witness: object 1 is held after a pinch at (145, 145), 7 pixels from the
\* centre of object 0 and 35 from that of object 1.
C16_Witness ==
    /\ game.selected_object = 1
    /\ index_tip = <<145, 145>>
    /\ game.objects[0].pos = StagePoint
    /\ game.objects[1].pos = OverlapPoint
    /\ game.selected_offset = <<0 - 25, 0 - 25>>

\* C13: a camera frame in which no hand is detected leaves detected false,
\* the gesture state "none", no bounding box and no tip points, whatever the
\* observation before it.
C13_NoHandObservation ==
    [][(\E d \in FrameUnits : CameraTick(NoHand, d)) =>
          /\ ~tracker'.hand_detected
          /\ tracker'.hand_state = "none"
          /\ tracker'.hand_bbox = NoBox
          /\ index_tip' = NoPoint
          /\ thumb_tip' = NoPoint]_vars

\* C13 witness: no hand in the latest frame, after a frame with a hand whose
\* pinch picked an object up off its centre.
C13_Witness ==
    /\ ~tracker.hand_detected
    /\ index_tip = NoPoint
    /\ game.selected_offset # <<0, 0>>

\* C14 (as claimed): the gesture state is "none" if and only if no hand is
\* detected.
C14_NoneIffUndetected ==
    (tracker.hand_state = "none") <=> ~tracker.hand_detected

\* C14 (amended): the gesture state is "none" whenever no hand is detected;
\* a detected hand may be "none" too, but only if neither pinch rule applies
\* to it.
C14_NoneWhenUndetected ==
    /\ ~tracker.hand_detected => tracker.hand_state = "none"
    /\ (tracker.hand_detected /\ tracker.hand_state = "none")
           => (~ThumbOnIndex /\ ~SmallBox)

\* C14 witness: a detected hand whose gesture state is "none".
C14_Witness ==
    /\ tracker.hand_detected
    /\ tracker.hand_state = "none"
    /\ tracker.hand_bbox # NoBox

\* C15: a detected hand whose thumb-to-index distance over the box diagonal
\* is below 0.18, or whose box diagonal is below 120, is classified "pinch".
C15_PinchRules ==
    (tracker.hand_detected /\ (ThumbOnIndex \/ SmallBox))
        => tracker.hand_state = "pinch"

\* C15 witness: a hand classified "pinch" by the small box alone, its thumb
\* far from its index tip.
C15_Witness ==
    /\ tracker.hand_detected
    /\ tracker.hand_state = "pinch"
    /\ SmallBox
    /\ ~ThumbOnIndex

\* C20 (as claimed): the bounding box (x, y, w, h) of a detected hand lies in
\* the frame: x, y, w, h >= 0, x + w <= WIDTH - 1 and y + h <= HEIGHT - 1.
C20_BoxClamped ==
    tracker.hand_detected =>
        /\ tracker.hand_bbox[1] >= 0
        /\ tracker.hand_bbox[2] >= 0
        /\ tracker.hand_bbox[3] >= 0
        /\ tracker.hand_bbox[4] >= 0
        /\ tracker.hand_bbox[1] + tracker.hand_bbox[3] <= WIDTH - 1
        /\ tracker.hand_bbox[2] + tracker.hand_bbox[4] <= HEIGHT - 1

\* C17: on release the candidate slot is the slot nearest to the held object's
\* centre (the lowest index among equally near ones), whatever the fingertip's
\* position and whether the slot is occupied or not: the object goes into that
\* slot if it is within the snap radius and empty, and into no slot otherwise.
C17_CandidateSlot ==
    [][IsRelease =>
        LET j == game.selected_object
            pos == game.objects[j].pos
            i == NearestSlot(pos)
        IN  IF WithinSnap(pos, i) /\ game.slot_contents[i] = None
            THEN /\ game'.objects[j].slot_index = i
                 /\ game'.objects[j].pos = slots[i]
                 /\ game'.slot_contents =
                        [game.slot_contents EXCEPT ![i] = game.objects[j].symbol]
            ELSE /\ game'.objects[j].slot_index = NoIndex
                 /\ game'.slot_contents = game.slot_contents]_vars

\* C17 witness: object 0, held 10 pixels off its centre, has just been placed
\* in slot 0 from the point midway between slots 0 and 1, by a hand whose
\* index tip was far from every slot.
C17_Witness ==
    /\ placed
    /\ game.objects[0].slot_index = 0
    /\ game.selected_offset = <<10, 10>>
    /\ index_tip # NoPoint
    /\ \A i \in SlotIds : ~WithinSnap(index_tip, i)

C19_LostHandFreezes ==
    [][(IsFrame /\ game.selected_object # NoIndex /\ index_tip' = NoPoint) =>
          /\ game'.selected_object = game.selected_object
          /\ game'.selected_offset = game.selected_offset
          /\ game'.objects = game.objects
          /\ game'.slot_contents = game.slot_contents]_vars

\* C19 witness: the hand is lost while an object dragged to (350, 500) is held.
C19_Witness ==
    /\ game.selected_object # NoIndex
    /\ ~tracker.hand_detected
    /\ index_tip = NoPoint
    /\ game.objects[game.selected_object].pos = <<350, 500>>

\* C21 (as claimed): at construction every object's position lies in the
\* staging box inset by the object's size: with the box (100, 100, 400, 300)
\* and size 40, 140 <= x <= 460 and 140 <= y <= 360.
C21_InitialInset ==
    (elapsed = 0 /\ game \in {NewGame(k, ScatterPositions(p)) :
                                  k \in KeyShuffles, p \in DrawnPoints}) =>
        \A j \in ObjectIds :
            /\ box_area[1] + game.objects[j].size <= game.objects[j].pos[1]
            /\ game.objects[j].pos[1]
                   <= box_area[1] + box_area[3] - game.objects[j].size
            /\ box_area[2] + game.objects[j].size <= game.objects[j].pos[2]
            /\ game.objects[j].pos[2]
                   <= box_area[2] + box_area[4] - game.objects[j].size

\* C22: with frames following each other and the clock advancing, a game that
\* is not restarted eventually is over, and it is over in every state whose
\* timer update read elapsed >= time_limit, whatever the gestures were.
C22_EventuallyOver ==
    /\ <>game.game_over
    /\ [](elapsed >= TimeLimitUnits => game.game_over)

\* C22 witness: the timer update read exactly time_limit while an object was
\* held, and the game is over without a win.
C22_Witness ==
    /\ elapsed = TimeLimitUnits
    /\ game.selected_object # NoIndex
    /\ game.game_over
    /\ ~game.win

\* C23: in every reachable state with an object held, the held object is
\* unslotted: its slot_index is none and its in_slot flag is false.
C23_HeldIsUnslotted ==
    game.selected_object # NoIndex =>
        /\ game.objects[game.selected_object].slot_index = NoIndex
        /\ ~game.objects[game.selected_object].in_slot

\* C23 witness: the held object was just picked up out of a slot, on whose
\* centre it still sits, while another object stays slotted.
C23_Witness ==
    /\ detached
    /\ game.selected_object # NoIndex
    /\ game.objects[game.selected_object].pos \in {slots[i] : i \in SlotIds}
    /\ \E k \in ObjectIds : game.objects[k].in_slot

\* C24: once game_over holds, no later frame of that game changes an
\* object's position or slot_index, a slot's occupant, the held object or win.
C24_FrozenAfterGameOver ==
    [][(game.game_over /\ IsFrame) =>
          /\ game'.objects = game.objects
          /\ game'.slot_contents = game.slot_contents
          /\ game'.selected_object = game.selected_object
          /\ game'.win = game.win]_vars

\* C24 witness: an object held when the timer ran out is still held a frame
\* later, the game lost.
C24_Witness ==
    /\ elapsed > TimeLimitUnits
    /\ game.game_over
    /\ ~game.win
    /\ game.selected_object # NoIndex

\* C25: in every reachable state win implies that all five slots are occupied
\* and hold the reference key's symbols index by index.
C25_WinMeansKey == game.win => SlotsMatchKey(game)

\* C25 witness: the frame that placed the last piece declared the win.
C25_Witness ==
    /\ placed
    /\ game.win
    /\ \A i \in SlotIds : game.slot_contents[i] = game.reference_key[i]

\* C26: in camera mode is_pinching(index_tip, thumb_tip) is true for a frame
\* if and only if the frame's gesture state is "pinch"; it is false when no
\* hand is detected and true for a detected hand with diag < 120.
C26_PinchingIffPinch ==
    /\ is_pinching(tracker, index_tip, thumb_tip) <=> (tracker.hand_state = "pinch")
    /\ ~tracker.hand_detected => ~is_pinching(tracker, index_tip, thumb_tip)
    /\ (tracker.hand_detected /\ SmallBox)
           => is_pinching(tracker, index_tip, thumb_tip)

\* C26 witness: is_pinching holds for a hand in a small box whose tips are
\* far apart.
C26_Witness ==
    /\ is_pinching(tracker, index_tip, thumb_tip)
    /\ SmallBox
    /\ ~ThumbOnIndex
    /\ Dist2(thumb_tip, index_tip) = 50 * 50

====
